---- MODULE Spec2Model ----
(***************************************************************************)
(* The rule engine of the Scoundrel card game: GameplayScreen (main.py)    *)
(* with its Player and WeaponSlot components.  The state is the deck, the  *)
(* room, the weapon slot, the discard pile, the player's hp and message,   *)
(* and the flags just_ran, game_over and victory.  The commands are        *)
(* use_card, run_from_room, discard_weapon and restart, dispatched by      *)
(* handle_event.  Rendering, animation and particles are left out: they    *)
(* never write the fields modelled here.  The monolithic copy of the       *)
(* engine, class Game of scoundrel.py, receives the same commands and      *)
(* keeps its state in the variable game.                                   *)
(***************************************************************************)
EXTENDS Integers, Sequences, FiniteSets, TLC

VARIABLES deck, room_cards, weapon, monsters, discard_pile, hp, message,
          just_ran, game_over, victory, last, cmds, game

vars == <<deck, room_cards, weapon, monsters, discard_pile, hp, message,
          just_ran, game_over, victory, last, cmds, game>>

(***************************************************************************)
(* Bounds of the model.                                                    *)
(***************************************************************************)
\* commands explored after a deal (or after the replayed opening)
MaxCmds == 3
\* outcomes of random.shuffle(self.deck) that are explored
NumShuffles == 2
\* length of the replayed opening of the late-game initial states
SkipCmds == 41

(***************************************************************************)
(* Cards.                                                                  *)
(***************************************************************************)
max_hp == 20

Suit == <<"HEARTS", "DIAMONDS", "CLUBS", "SPADES">>

Card(value, suit) == [value |-> value, suit |-> suit]

\* weapon_slot.weapon = None
None == [value |-> 0, suit |-> "NONE"]

card_type(card) ==
    IF card.suit = "HEARTS" THEN "HEALTH"
    ELSE IF card.suit = "DIAMONDS" THEN "WEAPON"
    ELSE "MONSTER"

Min(a, b) == IF a <= b THEN a ELSE b
Max(a, b) == IF a >= b THEN a ELSE b

\* a card lying in the room: the card with the slot it was dealt to.
\* position_index is only ever read on the cards of room_cards and is
\* written by draw_room before a card enters the room, so it is kept on
\* room cards only.
Placed(card, position_index) ==
    [value |-> card.value, suit |-> card.suit, position_index |-> position_index]

Unplaced(rc) == Card(rc.value, rc.suit)

UnplacedSeq(s) == [k \in 1..Len(s) |-> Unplaced(s[k])]

Remove(s, i) == SubSeq(s, 1, i - 1) \o SubSeq(s, i + 1, Len(s))

Msg(text, args) == [text |-> text, args |-> args]

(***************************************************************************)
(* The deck.                                                               *)
(***************************************************************************)
RedLast == 10
BlackLast == 14

\* faulty variant: the values start at 1
values_from_one(suit) ==
    IF suit \in {"HEARTS", "DIAMONDS"}
    THEN [k \in 1..(RedLast - 1) |-> k]
    ELSE [k \in 1..(BlackLast - 1) |-> k]

values(suit) ==
    IF suit \in {"HEARTS", "DIAMONDS"}
    THEN [k \in 1..(RedLast - 1) |-> k + 1]
    ELSE [k \in 1..(BlackLast - 1) |-> k + 1]

SuitCards(suit) == [k \in 1..Len(values(suit)) |-> Card(values(suit)[k], suit)]

initialize_deck ==
    SuitCards(Suit[1]) \o SuitCards(Suit[2]) \o SuitCards(Suit[3]) \o SuitCards(Suit[4])

DeckSize == Len(initialize_deck)

\* random.shuffle(list): the list rearranged by a permutation p of its indexes
shuffled(list, p) == [k \in 1..Len(list) |-> list[p[k]]]

(***************************************************************************)
(* WeaponSlot (src/components/weapon.py).                                  *)
(***************************************************************************)
\* faulty variant: a monster of the value of the last stacked one is rejected
can_add_monster_strict(w, ms, monster) ==
    IF w = None THEN TRUE
    ELSE IF ms # <<>> /\ monster.value >= ms[Len(ms)].value THEN FALSE
    ELSE TRUE

\* faulty variant: no stacking rule
can_add_monster_any(w, ms, monster) == TRUE

can_add_monster(w, ms, monster) ==
    IF w = None THEN TRUE
    ELSE IF ms # <<>> /\ monster.value > ms[Len(ms)].value THEN FALSE
    ELSE TRUE

\* faulty variant: the monster is stacked without a weapon too
add_monster_always_stacks(w, ms, monster) ==
    IF ~can_add_monster(w, ms, monster)
    THEN [success |-> FALSE, damage |-> 0, monsters |-> ms]
    ELSE IF w # None
         THEN [success |-> TRUE, damage |-> Max(0, monster.value - w.value),
               monsters |-> Append(ms, monster)]
         ELSE [success |-> TRUE, damage |-> monster.value,
               monsters |-> Append(ms, monster)]

\* faulty variant: the weapon absorbs nothing
add_monster_no_absorb(w, ms, monster) ==
    IF ~can_add_monster(w, ms, monster)
    THEN [success |-> FALSE, damage |-> 0, monsters |-> ms]
    ELSE IF w # None
         THEN [success |-> TRUE, damage |-> monster.value,
               monsters |-> Append(ms, monster)]
         ELSE [success |-> TRUE, damage |-> monster.value, monsters |-> ms]

\* the result (success, damage_taken) and the monster stack afterwards
add_monster(w, ms, monster) ==
    IF ~can_add_monster(w, ms, monster)
    THEN [success |-> FALSE, damage |-> 0, monsters |-> ms]
    ELSE IF w # None
         THEN [success |-> TRUE, damage |-> Max(0, monster.value - w.value),
               monsters |-> Append(ms, monster)]
         ELSE [success |-> TRUE, damage |-> monster.value, monsters |-> ms]

\* faulty variant: the stack of the old weapon stays in the slot
set_weapon_keeps_stack(st, card) == [st EXCEPT !.weapon = card]

set_weapon(st, card) == [st EXCEPT !.weapon = card, !.monsters = <<>>]

\* faulty variant: the monsters stay in the slot without a weapon
discard_keeps_stack(st) == [st EXCEPT !.weapon = None]

discard(st) == [st EXCEPT !.weapon = None, !.monsters = <<>>]

(***************************************************************************)
(* Player (src/components/player.py).                                      *)
(***************************************************************************)
\* faulty variant: no cap at max_hp
use_health_potion_uncapped(st, card) ==
    [st EXCEPT !.hp = @ + card.value,
               !.message = Msg("Restored HP", <<card.value>>)]

use_health_potion(st, card) ==
    LET new_hp == Min(max_hp, st.hp + card.value)
        actual_healing == new_hp - st.hp
    IN  [st EXCEPT !.hp = new_hp,
                   !.message = Msg("Restored HP", <<actual_healing>>)]

equip_weapon(st, card) ==
    [set_weapon(st, card) EXCEPT
        !.message = Msg("Equipped", <<card.value, card.suit>>)]

\* faulty variant: hp is not raised to 0 when the player dies
fight_monster_no_clamp(st, monster) ==
    LET r == add_monster(st.weapon, st.monsters, monster)
    IN  IF ~can_add_monster(st.weapon, st.monsters, monster)
        THEN [st |-> [st EXCEPT !.message = Msg("Cannot fight this monster. Monsters must be in decreasing order.", <<>>)],
              action_successful |-> FALSE, player_survived |-> TRUE]
        ELSE IF r.damage > 0
        THEN IF st.hp - r.damage <= 0
             THEN [st |-> [st EXCEPT !.monsters = r.monsters, !.hp = @ - r.damage,
                                     !.message = Msg("You died!", <<>>)],
                   action_successful |-> TRUE, player_survived |-> FALSE]
             ELSE [st |-> [st EXCEPT !.monsters = r.monsters, !.hp = @ - r.damage,
                                     !.message =
                                        IF st.weapon # None
                                        THEN Msg("Weapon vs Monster: Took damage!",
                                                 <<st.weapon.value, monster.value, r.damage>>)
                                        ELSE Msg("No weapon! Defeated monster but took full damage!",
                                                 <<r.damage>>)],
                   action_successful |-> TRUE, player_survived |-> TRUE]
        ELSE [st |-> [st EXCEPT !.monsters = r.monsters,
                                !.message = Msg("Your weapon fully protected you!", <<>>)],
              action_successful |-> TRUE, player_survived |-> TRUE]

\* faulty variant: the damage is taken before the stacking rule is checked
fight_monster_hit_first(st, monster) ==
    LET r == add_monster(st.weapon, st.monsters, monster)
    IN  IF ~can_add_monster(st.weapon, st.monsters, monster)
        THEN [st |-> [st EXCEPT !.hp = Max(0, @ - Max(0, monster.value - st.weapon.value)),
                                !.message = Msg("Cannot fight this monster. Monsters must be in decreasing order.", <<>>)],
              action_successful |-> FALSE, player_survived |-> TRUE]
        ELSE IF r.damage > 0
        THEN IF st.hp - r.damage <= 0
             THEN [st |-> [st EXCEPT !.monsters = r.monsters, !.hp = 0,
                                     !.message = Msg("You died!", <<>>)],
                   action_successful |-> TRUE, player_survived |-> FALSE]
             ELSE [st |-> [st EXCEPT !.monsters = r.monsters, !.hp = @ - r.damage,
                                     !.message =
                                        IF st.weapon # None
                                        THEN Msg("Weapon vs Monster: Took damage!",
                                                 <<st.weapon.value, monster.value, r.damage>>)
                                        ELSE Msg("No weapon! Defeated monster but took full damage!",
                                                 <<r.damage>>)],
                   action_successful |-> TRUE, player_survived |-> TRUE]
        ELSE [st |-> [st EXCEPT !.monsters = r.monsters,
                                !.message = Msg("Your weapon fully protected you!", <<>>)],
              action_successful |-> TRUE, player_survived |-> TRUE]

\* the state afterwards and the result (action_successful, player_survived)
fight_monster(st, monster) ==
    LET r == add_monster(st.weapon, st.monsters, monster)
    IN  IF ~can_add_monster(st.weapon, st.monsters, monster)
        THEN [st |-> [st EXCEPT !.message = Msg("Cannot fight this monster. Monsters must be in decreasing order.", <<>>)],
              action_successful |-> FALSE, player_survived |-> TRUE]
        ELSE IF r.damage > 0
        THEN IF st.hp - r.damage <= 0
             THEN [st |-> [st EXCEPT !.monsters = r.monsters, !.hp = 0,
                                     !.message = Msg("You died!", <<>>)],
                   action_successful |-> TRUE, player_survived |-> FALSE]
             ELSE [st |-> [st EXCEPT !.monsters = r.monsters, !.hp = @ - r.damage,
                                     !.message =
                                        IF st.weapon # None
                                        THEN Msg("Weapon vs Monster: Took damage!",
                                                 <<st.weapon.value, monster.value, r.damage>>)
                                        ELSE Msg("No weapon! Defeated monster but took full damage!",
                                                 <<r.damage>>)],
                   action_successful |-> TRUE, player_survived |-> TRUE]
        ELSE [st |-> [st EXCEPT !.monsters = r.monsters,
                                !.message = Msg("Your weapon fully protected you!", <<>>)],
              action_successful |-> TRUE, player_survived |-> TRUE]

(***************************************************************************)
(* GameplayScreen (main.py).                                               *)
(***************************************************************************)
\* the positions of 0..3 that no room card occupies, in ascending order
empty_positions(room) ==
    SelectSeq(<<0, 1, 2, 3>>,
              LAMBDA i : \A k \in 1..Len(room) : room[k].position_index # i)

\* faulty variant: the new cards are numbered after the cards of the room
draw_room_renumbered(st) ==
    IF Len(st.room_cards) > 1 THEN st
    ELSE LET first == Len(st.room_cards)
             n     == Min(4 - first, Len(st.deck))
         IN  [st EXCEPT
                !.deck = SubSeq(st.deck, n + 1, Len(st.deck)),
                !.room_cards = @ \o [k \in 1..n |-> Placed(st.deck[k], first + k - 1)]]

\* faulty variant: the room is refilled only when it is empty
draw_room_when_empty(st) ==
    IF Len(st.room_cards) > 0 THEN st
    ELSE LET ep == empty_positions(st.room_cards)
             n  == Min(Len(ep), Len(st.deck))
         IN  [st EXCEPT
                !.deck = SubSeq(st.deck, n + 1, Len(st.deck)),
                !.room_cards = @ \o [k \in 1..n |-> Placed(st.deck[k], ep[k])]]

draw_room(st) ==
    IF Len(st.room_cards) > 1 THEN st
    ELSE LET ep == empty_positions(st.room_cards)
             n  == Min(Len(ep), Len(st.deck))
         IN  [st EXCEPT
                !.deck = SubSeq(st.deck, n + 1, Len(st.deck)),
                !.room_cards = @ \o [k \in 1..n |-> Placed(st.deck[k], ep[k])]]

\* faulty variant: the cards of the room go back on top of the deck
run_from_room_to_top(st, p) ==
    IF st.just_ran
    THEN [st EXCEPT !.message = Msg("Cannot run from rooms consecutively!", <<>>)]
    ELSE IF st.room_cards = <<>>
    THEN [st EXCEPT !.message = Msg("The room is empty!", <<>>)]
    ELSE LET ran == [st EXCEPT
                        !.message = Msg("Running from the room...", <<>>),
                        !.deck = UnplacedSeq(shuffled(st.room_cards, p)) \o @,
                        !.room_cards = <<>>]
         IN  [draw_room(ran) EXCEPT !.just_ran = TRUE]

\* faulty variant: the room is not emptied after its cards went back to the deck
run_from_room_keeps_room(st, p) ==
    IF st.just_ran
    THEN [st EXCEPT !.message = Msg("Cannot run from rooms consecutively!", <<>>)]
    ELSE IF st.room_cards = <<>>
    THEN [st EXCEPT !.message = Msg("The room is empty!", <<>>)]
    ELSE LET ran == [st EXCEPT
                        !.message = Msg("Running from the room...", <<>>),
                        !.deck = @ \o UnplacedSeq(shuffled(st.room_cards, p))]
         IN  [draw_room(ran) EXCEPT !.just_ran = TRUE]

\* faulty variant: consecutive runs are not refused
run_from_room_unguarded(st, p) ==
    IF st.room_cards = <<>>
    THEN [st EXCEPT !.message = Msg("The room is empty!", <<>>)]
    ELSE LET ran == [st EXCEPT
                        !.message = Msg("Running from the room...", <<>>),
                        !.deck = @ \o UnplacedSeq(shuffled(st.room_cards, p)),
                        !.room_cards = <<>>]
         IN  [draw_room(ran) EXCEPT !.just_ran = TRUE]

\* p is the outcome of random.shuffle(self.room_cards)
run_from_room(st, p) ==
    IF st.just_ran
    THEN [st EXCEPT !.message = Msg("Cannot run from rooms consecutively!", <<>>)]
    ELSE IF st.room_cards = <<>>
    THEN [st EXCEPT !.message = Msg("The room is empty!", <<>>)]
    ELSE LET ran == [st EXCEPT
                        !.message = Msg("Running from the room...", <<>>),
                        !.deck = @ \o UnplacedSeq(shuffled(st.room_cards, p)),
                        !.room_cards = <<>>]
         IN  [draw_room(ran) EXCEPT !.just_ran = TRUE]

\* the branch of use_card on the type of the card (main.py 225-288): the
\* state afterwards, the result of fight_monster, and whether use_card
\* returns there (the player died)
use_card_branch(st, card_index) ==
    LET rc   == st.room_cards[card_index + 1]
        card == Unplaced(rc)
        room == Remove(st.room_cards, card_index + 1)
    IN  CASE card_type(card) = "HEALTH" ->
               [st |-> [use_health_potion([st EXCEPT !.room_cards = room], card)
                           EXCEPT !.discard_pile = Append(@, card)],
                action_successful |-> TRUE, player_survived |-> TRUE]
          [] card_type(card) = "WEAPON" ->
               LET old == IF st.weapon # None
                          THEN [st EXCEPT !.discard_pile =
                                   Append(@, st.weapon) \o st.monsters]
                          ELSE st
               IN  [st |-> equip_weapon([old EXCEPT !.room_cards = room], card),
                    action_successful |-> TRUE, player_survived |-> TRUE]
          [] card_type(card) = "MONSTER" ->
               LET f == fight_monster(st, card)
               IN  IF f.action_successful
                   THEN [st |-> [f.st EXCEPT
                                    !.room_cards = room,
                                    !.discard_pile =
                                        IF f.st.weapon = None THEN Append(@, card) ELSE @,
                                    !.game_over =
                                        IF f.player_survived THEN @ ELSE TRUE],
                         action_successful |-> TRUE,
                         player_survived |-> f.player_survived]
                   ELSE f

\* faulty variant: victory does not end the game
use_card_end_victory_only(st) ==
    LET drawn == IF Len(st.room_cards) <= 1 THEN draw_room(st) ELSE st
        won   == drawn.deck = <<>> /\ drawn.room_cards = <<>>
    IN  [drawn EXCEPT !.just_ran = FALSE,
                      !.victory = IF won THEN TRUE ELSE @]

\* faulty variant: the room is not refilled after a card was used
use_card_end_no_refill(st) ==
    LET won == st.deck = <<>> /\ st.room_cards = <<>>
    IN  [st EXCEPT !.just_ran = FALSE,
                   !.victory = IF won THEN TRUE ELSE @,
                   !.game_over = IF won THEN TRUE ELSE @]

\* faulty variant: victory as soon as the deck is empty
use_card_end_deck_only(st) ==
    LET drawn == IF Len(st.room_cards) <= 1 THEN draw_room(st) ELSE st
        won   == drawn.deck = <<>>
    IN  [drawn EXCEPT !.just_ran = FALSE,
                      !.victory = IF won THEN TRUE ELSE @,
                      !.game_over = IF won THEN TRUE ELSE @]

\* the end of use_card (main.py 290-302): refill, just_ran, victory
use_card_end(st) ==
    LET drawn == IF Len(st.room_cards) <= 1 THEN draw_room(st) ELSE st
        won   == drawn.deck = <<>> /\ drawn.room_cards = <<>>
    IN  [drawn EXCEPT !.just_ran = FALSE,
                      !.victory = IF won THEN TRUE ELSE @,
                      !.game_over = IF won THEN TRUE ELSE @]

\* faulty variant: a negative index counts from the end of the room
use_card_negative_index(st, card_index) ==
    LET i == IF card_index < 0 THEN Len(st.room_cards) + card_index ELSE card_index
    IN  IF ~(0 <= i /\ i < Len(st.room_cards))
        THEN [st |-> [st EXCEPT !.message = Msg("Invalid card selection!", <<>>)],
              continue |-> TRUE, valid |-> FALSE,
              action_successful |-> FALSE, player_survived |-> TRUE]
        ELSE LET b == use_card_branch(st, i)
             IN  IF ~b.player_survived
                 THEN [st |-> b.st, continue |-> FALSE, valid |-> TRUE,
                       action_successful |-> b.action_successful,
                       player_survived |-> FALSE]
                 ELSE [st |-> use_card_end(b.st), continue |-> TRUE, valid |-> TRUE,
                       action_successful |-> b.action_successful,
                       player_survived |-> TRUE]

\* faulty variant: card_index is the slot of the card, not its place in the list
use_card_by_slot(st, card_index) ==
    LET at == {k \in 1..Len(st.room_cards) :
                  st.room_cards[k].position_index = card_index}
    IN  IF at = {}
        THEN [st |-> [st EXCEPT !.message = Msg("Invalid card selection!", <<>>)],
              continue |-> TRUE, valid |-> FALSE,
              action_successful |-> FALSE, player_survived |-> TRUE]
        ELSE LET b == use_card_branch(st, (CHOOSE k \in at : TRUE) - 1)
             IN  IF ~b.player_survived
                 THEN [st |-> b.st, continue |-> FALSE, valid |-> TRUE,
                       action_successful |-> b.action_successful,
                       player_survived |-> FALSE]
                 ELSE [st |-> use_card_end(b.st), continue |-> TRUE, valid |-> TRUE,
                       action_successful |-> b.action_successful,
                       player_survived |-> TRUE]

\* faulty variant: the refill and the victory check also run after the player died
use_card_no_stop(st, card_index) ==
    IF ~(0 <= card_index /\ card_index < Len(st.room_cards))
    THEN [st |-> [st EXCEPT !.message = Msg("Invalid card selection!", <<>>)],
          continue |-> TRUE, valid |-> FALSE,
          action_successful |-> FALSE, player_survived |-> TRUE]
    ELSE LET b == use_card_branch(st, card_index)
         IN  IF ~b.player_survived
             THEN [st |-> use_card_end(b.st), continue |-> FALSE, valid |-> TRUE,
                   action_successful |-> b.action_successful,
                   player_survived |-> FALSE]
             ELSE [st |-> use_card_end(b.st), continue |-> TRUE, valid |-> TRUE,
                   action_successful |-> b.action_successful,
                   player_survived |-> TRUE]

\* the state afterwards, the value returned (continue), and the result of
\* the fight when the card was a monster
use_card(st, card_index) ==
    IF ~(0 <= card_index /\ card_index < Len(st.room_cards))
    THEN [st |-> [st EXCEPT !.message = Msg("Invalid card selection!", <<>>)],
          continue |-> TRUE, valid |-> FALSE,
          action_successful |-> FALSE, player_survived |-> TRUE]
    ELSE LET b == use_card_branch(st, card_index)
         IN  IF ~b.player_survived
             THEN [st |-> b.st, continue |-> FALSE, valid |-> TRUE,
                   action_successful |-> b.action_successful,
                   player_survived |-> FALSE]
             ELSE [st |-> use_card_end(b.st), continue |-> TRUE, valid |-> TRUE,
                   action_successful |-> b.action_successful,
                   player_survived |-> TRUE]

\* faulty variant: the weapon and its stack are put under the pile
discard_weapon_prepends(st) ==
    IF st.weapon = None
    THEN [st EXCEPT !.message = Msg("No weapon to discard!", <<>>)]
    ELSE [discard([st EXCEPT !.discard_pile = (<<st.weapon>> \o st.monsters) \o @])
            EXCEPT !.message = Msg("Discarded weapon", <<>>),
                   !.just_ran = FALSE]

\* faulty variant: the weapon and its stack go back under the deck
discard_weapon_to_deck(st) ==
    IF st.weapon = None
    THEN [st EXCEPT !.message = Msg("No weapon to discard!", <<>>)]
    ELSE [discard([st EXCEPT !.deck = Append(@, st.weapon) \o st.monsters])
            EXCEPT !.message = Msg("Discarded weapon", <<>>),
                   !.just_ran = FALSE]

\* faulty variant: a weapon that carries monsters cannot be discarded
discard_weapon_empty_stack_only(st) ==
    IF st.weapon = None \/ st.monsters # <<>>
    THEN [st EXCEPT !.message = Msg("No weapon to discard!", <<>>)]
    ELSE [discard([st EXCEPT !.discard_pile = Append(@, st.weapon) \o st.monsters])
            EXCEPT !.message = Msg("Discarded weapon", <<>>),
                   !.just_ran = FALSE]

\* faulty variant: just_ran survives the discard
discard_weapon_keeps_just_ran(st) ==
    IF st.weapon = None
    THEN [st EXCEPT !.message = Msg("No weapon to discard!", <<>>)]
    ELSE [discard([st EXCEPT !.discard_pile = Append(@, st.weapon) \o st.monsters])
            EXCEPT !.message = Msg("Discarded weapon", <<>>)]

discard_weapon(st) ==
    IF st.weapon = None
    THEN [st EXCEPT !.message = Msg("No weapon to discard!", <<>>)]
    ELSE [discard([st EXCEPT !.discard_pile = Append(@, st.weapon) \o st.monsters])
            EXCEPT !.message = Msg("Discarded weapon", <<>>),
                   !.just_ran = FALSE]

\* faulty variant: no room is dealt
init_no_deal(p) ==
    [deck         |-> shuffled(initialize_deck, p),
     room_cards   |-> <<>>,
     weapon       |-> None,
     monsters     |-> <<>>,
     discard_pile |-> <<>>,
     hp           |-> max_hp,
     message      |-> Msg("", <<>>),
     just_ran     |-> FALSE,
     game_over    |-> FALSE,
     victory      |-> FALSE]

\* GameplayScreen.__init__, p being the outcome of shuffle_deck
init(p) ==
    draw_room([deck         |-> shuffled(initialize_deck, p),
               room_cards   |-> <<>>,
               weapon       |-> None,
               monsters     |-> <<>>,
               discard_pile |-> <<>>,
               hp           |-> max_hp,
               message      |-> Msg("", <<>>),
               just_ran     |-> FALSE,
               game_over    |-> FALSE,
               victory      |-> FALSE])

(***************************************************************************)
(* The monolithic engine (scoundrel.py): class Game with its own Card,     *)
(* WeaponSlot and Player.  Its state is a record of the same fields.       *)
(***************************************************************************)
Game_max_hp == 20

Game_card_type(card) ==
    CASE card.suit = "HEARTS"   -> "HEALTH"
      [] card.suit = "DIAMONDS" -> "WEAPON"
      [] OTHER                  -> "MONSTER"

\* Game.initialize_deck: for suit in Suit, for value in values
Game_initialize_deck ==
    LET red   == [v \in 1..9 |-> v + 1]
        black == [v \in 1..9 |-> v + 1] \o <<11, 12, 13, 14>>
        suit_cards(suit) == LET vs == IF suit \in {"HEARTS", "DIAMONDS"} THEN red ELSE black
                    IN  [k \in 1..Len(vs) |-> Card(vs[k], suit)]
    IN  suit_cards("HEARTS") \o suit_cards("DIAMONDS")
          \o suit_cards("CLUBS") \o suit_cards("SPADES")

Game_can_add_monster(g, monster) ==
    \/ g.weapon = None
    \/ ~(g.monsters # <<>> /\ monster.value > g.monsters[Len(g.monsters)].value)

\* the state afterwards with the result (success, damage_taken)
Game_add_monster(g, monster) ==
    IF ~Game_can_add_monster(g, monster)
    THEN [g |-> g, success |-> FALSE, damage |-> 0]
    ELSE IF g.weapon # None
    THEN [g |-> [g EXCEPT !.monsters = Append(@, monster)], success |-> TRUE,
          damage |-> Max(0, monster.value - g.weapon.value)]
    ELSE [g |-> g, success |-> TRUE, damage |-> monster.value]

Game_set_weapon(g, w) == [g EXCEPT !.weapon = w, !.monsters = <<>>]

Game_discard(g) == [g EXCEPT !.weapon = None, !.monsters = <<>>]

Game_use_health_potion(g, card) ==
    LET old_hp == g.hp
        healed == [g EXCEPT !.hp = Min(Game_max_hp, g.hp + card.value)]
    IN  [healed EXCEPT !.message = Msg("Restored HP", <<healed.hp - old_hp>>)]

Game_equip_weapon(g, card) ==
    [Game_set_weapon(g, card) EXCEPT
        !.message = Msg("Equipped", <<card.value, card.suit>>)]

\* the state afterwards with the result (action_successful, player_survived)
Game_fight_monster(g, monster) ==
    IF ~Game_can_add_monster(g, monster)
    THEN [g |-> [g EXCEPT !.message = Msg("Cannot fight this monster. Monsters must be in decreasing order.", <<>>)],
          action_successful |-> FALSE, player_survived |-> TRUE]
    ELSE LET a == Game_add_monster(g, monster)
         IN  IF a.damage > 0
             THEN LET hit == [a.g EXCEPT
                                !.hp = @ - a.damage,
                                !.message =
                                    IF a.g.weapon # None
                                    THEN Msg("Weapon vs Monster: Took damage!",
                                             <<a.g.weapon.value, monster.value, a.damage>>)
                                    ELSE Msg("No weapon! Defeated monster but took full damage!",
                                             <<a.damage>>)]
                  IN  IF hit.hp <= 0
                      THEN [g |-> [hit EXCEPT !.hp = 0, !.message = Msg("You died!", <<>>)],
                            action_successful |-> TRUE, player_survived |-> FALSE]
                      ELSE [g |-> hit, action_successful |-> TRUE,
                            player_survived |-> TRUE]
             ELSE [g |-> [a.g EXCEPT !.message = Msg("Your weapon fully protected you!", <<>>)],
                   action_successful |-> TRUE, player_survived |-> TRUE]

\* Game.draw_room: one card after the other, for each empty position
RECURSIVE Game_draw_cards(_, _)
Game_draw_cards(g, positions) ==
    IF positions = <<>> \/ g.deck = <<>> THEN g
    ELSE Game_draw_cards(
             [g EXCEPT !.deck = Tail(@),
                       !.room_cards = Append(@, Placed(Head(g.deck), Head(positions)))],
             Tail(positions))

Game_draw_room(g) ==
    IF Len(g.room_cards) > 1 THEN g
    ELSE LET occupied == {g.room_cards[k].position_index : k \in 1..Len(g.room_cards)}
         IN  Game_draw_cards(g, SelectSeq(<<0, 1, 2, 3>>, LAMBDA i : i \notin occupied))

\* p is the outcome of random.shuffle(self.room_cards), a permutation of
\* the indexes of the room; an outcome drawn for a room of another size
\* does not apply and leaves the order as it is
Game_run_from_room(g, p) ==
    IF g.just_ran
    THEN [g EXCEPT !.message = Msg("Cannot run from rooms consecutively!", <<>>)]
    ELSE IF Len(g.room_cards) = 0
    THEN [g EXCEPT !.message = Msg("The room is empty!", <<>>)]
    ELSE LET back == IF DOMAIN p = DOMAIN g.room_cards
                     THEN [k \in 1..Len(g.room_cards) |-> Unplaced(g.room_cards[p[k]])]
                     ELSE UnplacedSeq(g.room_cards)
             left == [g EXCEPT !.message = Msg("Running from the room...", <<>>),
                               !.deck = @ \o back,
                               !.room_cards = <<>>]
         IN  [Game_draw_room(left) EXCEPT !.just_ran = TRUE]

\* the state afterwards and the value returned
Game_use_card(g, card_index) ==
    IF ~(0 <= card_index /\ card_index < Len(g.room_cards))
    THEN [g |-> [g EXCEPT !.message = Msg("Invalid card selection!", <<>>)],
          continue |-> TRUE]
    ELSE LET card == Unplaced(g.room_cards[card_index + 1])
             \* self.room_cards.remove(card)
             removed(h) == [h EXCEPT !.room_cards =
                               SelectSeq(@, LAMBDA rc : Unplaced(rc) # card)]
             after ==
               CASE Game_card_type(card) = "HEALTH" ->
                      [g |-> [Game_use_health_potion(removed(g), card)
                                EXCEPT !.discard_pile = Append(@, card)],
                       died |-> FALSE]
                 [] Game_card_type(card) = "WEAPON" ->
                      LET d == IF g.weapon # None
                               THEN [g EXCEPT !.discard_pile =
                                        (@ \o <<g.weapon>>) \o g.monsters]
                               ELSE g
                      IN  [g |-> Game_equip_weapon(removed(d), card), died |-> FALSE]
                 [] Game_card_type(card) = "MONSTER" ->
                      LET f == Game_fight_monster(g, card)
                      IN  IF ~f.action_successful
                          THEN [g |-> f.g, died |-> FALSE]
                          ELSE LET h == removed(f.g)
                                   d == IF h.weapon = None
                                        THEN [h EXCEPT !.discard_pile = Append(@, card)]
                                        ELSE h
                               IN  IF ~f.player_survived
                                   THEN [g |-> [d EXCEPT !.game_over = TRUE],
                                         died |-> TRUE]
                                   ELSE [g |-> d, died |-> FALSE]
         IN  IF after.died
             THEN [g |-> after.g, continue |-> FALSE]
             ELSE LET r == IF Len(after.g.room_cards) <= 1
                           THEN Game_draw_room(after.g) ELSE after.g
                      j == [r EXCEPT !.just_ran = FALSE]
                  IN  [g |-> IF j.deck = <<>> /\ j.room_cards = <<>>
                             THEN [j EXCEPT !.victory = TRUE, !.game_over = TRUE]
                             ELSE j,
                       continue |-> TRUE]

\* faulty variant: the monolithic engine does not clear just_ran
Game_discard_weapon_keeps_just_ran(g) ==
    IF g.weapon = None
    THEN [g EXCEPT !.message = Msg("No weapon to discard!", <<>>)]
    ELSE [Game_discard([g EXCEPT !.discard_pile = (@ \o <<g.weapon>>) \o g.monsters])
            EXCEPT !.message = Msg("Discarded weapon", <<>>)]

\* self.player is set once the game has been initialized
Game_discard_weapon(g) ==
    IF g.weapon = None
    THEN [g EXCEPT !.message = Msg("No weapon to discard!", <<>>)]
    ELSE [Game_discard([g EXCEPT !.discard_pile = (@ \o <<g.weapon>>) \o g.monsters])
            EXCEPT !.message = Msg("Discarded weapon", <<>>),
                   !.just_ran = FALSE]

\* Game.initialize_gameplay, p being the outcome of shuffle_deck
Game_initialize_gameplay(p) ==
    Game_draw_room([deck         |-> [k \in 1..Len(Game_initialize_deck) |->
                                         Game_initialize_deck[p[k]]],
                    room_cards   |-> <<>>,
                    weapon       |-> None,
                    monsters     |-> <<>>,
                    discard_pile |-> <<>>,
                    hp           |-> 20,
                    message      |-> Msg("", <<>>),
                    just_ran     |-> FALSE,
                    game_over    |-> FALSE,
                    victory      |-> FALSE])

(***************************************************************************)
(* Outcomes of random.shuffle.                                             *)
(***************************************************************************)
RoomShuffles(n) ==
    {p \in [1..n -> 1..n] : \A a, b \in 1..n : p[a] = p[b] => a = b}

\* Explored outcomes of shuffle_deck, as permutations of initialize_deck.
\* Played in deck order for SkipCmds cards, the first one leads to the 4 of
\* diamonds with the 2 of spades stacked on it and hp 20, the 9 of spades
\* and the 9 of diamonds in the room and the 2 of clubs in the deck; the
\* second one to the 9 of diamonds and hp 3, the ace of spades and the 3 of
\* hearts in the room and the 3 of diamonds in the deck.
DeckOrder1 ==
    <<18, 31, 44, 7, 30, 43, 29, 42, 28, 41, 9, 27, 40, 26, 25,
      38, 24, 37, 23, 36, 22, 35, 21, 34, 20, 33, 1, 2, 3, 4,
      5, 6, 8, 10, 11, 13, 14, 15, 16, 12, 32, 39, 17, 19>>

DeckOrder2 ==
    <<3, 4, 5, 6, 7, 8, 9, 20, 18, 31, 30, 43, 29, 42, 28,
      41, 1, 27, 40, 26, 39, 25, 38, 24, 37, 23, 36, 22, 35, 21,
      34, 33, 19, 32, 10, 12, 13, 14, 15, 16, 17, 44, 2, 11>>

\* the deck dealt with a stride of 2s+1 cards (coprime to 44 for s = 3, 4)
DeckOrderStride(s) == [k \in 1..DeckSize |-> ((k * (2 * s + 1)) % DeckSize) + 1]

ShuffleOutcome(s) ==
    CASE s = 1 -> DeckOrder1
      [] s = 2 -> DeckOrder2
      [] OTHER -> DeckOrderStride(s)

(***************************************************************************)
(* The state machine.                                                      *)
(***************************************************************************)
State ==
    [deck |-> deck, room_cards |-> room_cards, weapon |-> weapon,
     monsters |-> monsters, discard_pile |-> discard_pile, hp |-> hp,
     message |-> message, just_ran |-> just_ran, game_over |-> game_over,
     victory |-> victory]

Becomes(st) ==
    /\ deck' = st.deck
    /\ room_cards' = st.room_cards
    /\ weapon' = st.weapon
    /\ monsters' = st.monsters
    /\ discard_pile' = st.discard_pile
    /\ hp' = st.hp
    /\ message' = st.message
    /\ just_ran' = st.just_ran
    /\ game_over' = st.game_over
    /\ victory' = st.victory

\* the game after k clicks on the first card of the room (use_card(0)),
\* stopped when the game is over
RECURSIVE Replay(_, _)
Replay(st, k) ==
    IF k = 0 \/ st.game_over THEN st
    ELSE Replay(use_card(st, 0).st, k - 1)

\* the same clicks on the monolithic engine
RECURSIVE Game_Replay(_, _)
Game_Replay(g, k) ==
    IF k = 0 \/ g.game_over THEN g
    ELSE Game_Replay(Game_use_card(g, 0).g, k - 1)

\* the last command, the card it selected and what it returned
Last(cmd, card_index, accepted, action_successful, player_survived, returned) ==
    [cmd |-> cmd, card_index |-> card_index,
     card |-> IF cmd = "use_card" /\ 0 <= card_index /\ card_index < Len(room_cards)
              THEN Unplaced(room_cards[card_index + 1]) ELSE None,
     accepted |-> accepted,
     action_successful |-> action_successful,
     player_survived |-> player_survived, returned |-> returned,
     over_before |-> game_over]

\* faulty variant: commands are processed after the game is over
CommandsAccepted_always(st) == TRUE

\* handle_event: while the game is over every click restarts the game, so
\* no other command reaches the engine
CommandsAccepted(st) == ~st.game_over

\* card_index ranges over the valid indexes and one index on each side
CardIndexes == -1..4

\* A new game (GameplayScreen.__init__), or the same game later on: the
\* state reached from it by SkipCmds times use_card(0), which puts the last
\* rooms of a game within MaxCmds commands.
Init ==
    \E s \in 1..NumShuffles, k \in {0, SkipCmds} :
        LET st == Replay(init(ShuffleOutcome(s)), k)
        IN  /\ deck = st.deck
            /\ room_cards = st.room_cards
            /\ weapon = st.weapon
            /\ monsters = st.monsters
            /\ discard_pile = st.discard_pile
            /\ hp = st.hp
            /\ message = st.message
            /\ just_ran = st.just_ran
            /\ game_over = st.game_over
            /\ victory = st.victory
            /\ last = [cmd |-> "init", card_index |-> -1, card |-> None,
                       accepted |-> TRUE,
                       action_successful |-> TRUE, player_survived |-> TRUE,
                       returned |-> TRUE, over_before |-> FALSE]
            /\ cmds = 0
            /\ game = Game_Replay(Game_initialize_gameplay(ShuffleOutcome(s)), k)

\* a click on a room card; use_card checks the index itself
UseCard(card_index) ==
    /\ CommandsAccepted(State)
    /\ cmds < MaxCmds
    /\ LET r == use_card(State, card_index)
       IN  /\ Becomes(r.st)
           /\ last' = Last("use_card", card_index,
                           r.valid /\ r.action_successful,
                           r.action_successful, r.player_survived, r.continue)
    /\ cmds' = cmds + 1
    /\ game' = Game_use_card(game, card_index).g

\* a click on the run button, p being the outcome of the shuffle of the
\* room; the button is only disabled by the next update(), so that
\* run_from_room can be called with just_ran true
RunFromRoom(p) ==
    /\ CommandsAccepted(State)
    /\ cmds < MaxCmds
    /\ Becomes(run_from_room(State, p))
    /\ last' = Last("run_from_room", -1, ~just_ran /\ room_cards # <<>>,
                    TRUE, TRUE, TRUE)
    /\ cmds' = cmds + 1
    /\ game' = Game_run_from_room(game, p)

\* a click on the discard button
DiscardWeapon ==
    /\ CommandsAccepted(State)
    /\ cmds < MaxCmds
    /\ Becomes(discard_weapon(State))
    /\ last' = Last("discard_weapon", -1, weapon # None, TRUE, TRUE, TRUE)
    /\ cmds' = cmds + 1
    /\ game' = Game_discard_weapon(game)

\* restart, by the restart button or by any click while the game is over:
\* self.__init__() with a fresh shuffle
Restart(s) ==
    /\ Becomes(init(ShuffleOutcome(s)))
    /\ last' = Last("restart", -1, TRUE, TRUE, TRUE, TRUE)
    /\ cmds' = 0
    /\ game' = Game_initialize_gameplay(ShuffleOutcome(s))

Next ==
    \/ \E card_index \in CardIndexes : UseCard(card_index)
    \/ \E p \in RoomShuffles(Len(room_cards)) : RunFromRoom(p)
    \/ DiscardWeapon
    \/ \E s \in 1..NumShuffles : Restart(s)

Spec == Init /\ [][Next]_vars

(***************************************************************************)
(* Properties.                                                             *)
(***************************************************************************)
\* the cards of the five places, one after the other
AllCards ==
    deck \o UnplacedSeq(room_cards)
         \o (IF weapon = None THEN <<>> ELSE <<weapon>>)
         \o monsters \o discard_pile

\* the engine fields other than the message
engine == <<deck, room_cards, weapon, monsters, discard_pile, hp,
            just_ran, game_over, victory>>

\* C1 - card conservation: in every reachable state, also after death and
\* after victory, deck, room, weapon, monster stack and discard pile hold
\* 44 cards together, and these are the 44 distinct cards of the deck.
C1_CardConservation ==
    /\ Len(deck) + Len(room_cards) + (IF weapon = None THEN 0 ELSE 1)
         + Len(monsters) + Len(discard_pile) = 44
    /\ LET all   == AllCards
           cards == {all[k] : k \in 1..Len(all)}
       IN  /\ Cardinality(cards) = Len(all)
           /\ cards = {initialize_deck[k] : k \in 1..Len(initialize_deck)}

\* the player died with cards left in each of the five places
C1_Witness ==
    /\ last.cmd = "use_card" /\ ~last.player_survived
    /\ game_over /\ ~victory
    /\ deck # <<>> /\ room_cards # <<>> /\ weapon # None
    /\ monsters # <<>> /\ discard_pile # <<>>

\* C2 - monster ordering: in every reachable state each monster of the
\* stack has a value <= the value of the monster stacked just before it.
C2_MonsterOrdering ==
    \A k \in 1..(Len(monsters) - 1) : monsters[k + 1].value <= monsters[k].value

\* a monster has just been stacked on a stronger one
C2_Witness ==
    /\ last.cmd = "use_card" /\ last.action_successful
    /\ card_type(last.card) = "MONSTER"
    /\ Len(monsters) >= 2
    /\ monsters[Len(monsters)] = last.card
    /\ monsters[Len(monsters)].value < monsters[Len(monsters) - 1].value

\* C3 - rejected fight: use_card on a monster stronger than the last
\* stacked one, a weapon being equipped, reports (action not successful,
\* player survived) and leaves room, weapon, stack, deck, discard pile and
\* hp unchanged.
C3_RejectedFight ==
    [][ ( /\ last'.cmd = "use_card"
          /\ 0 <= last'.card_index /\ last'.card_index < Len(room_cards)
          /\ card_type(room_cards[last'.card_index + 1]) = "MONSTER"
          /\ weapon # None /\ monsters # <<>>
          /\ room_cards[last'.card_index + 1].value > monsters[Len(monsters)].value )
        => ( /\ ~last'.action_successful
             /\ last'.player_survived
             /\ UNCHANGED <<room_cards, weapon, monsters, deck, discard_pile, hp>> )
      ]_vars

\* a monster stronger than the weapon and than the stack has been rejected
C3_Witness ==
    /\ last.cmd = "use_card" /\ ~last.action_successful
    /\ card_type(last.card) = "MONSTER"
    /\ weapon # None /\ monsters # <<>>
    /\ last.card.value > monsters[Len(monsters)].value
    /\ last.card.value > weapon.value
    /\ \E k \in 1..Len(room_cards) : Unplaced(room_cards[k]) = last.card

\* C4 - run restriction: a run_from_room that directly follows a
\* run_from_room is refused and changes none of deck, room, weapon slot,
\* discard pile, hp, just_ran, game_over and victory.
C4_RunRestriction ==
    [][ (last.cmd = "run_from_room" /\ last'.cmd = "run_from_room")
        => ( /\ ~last'.accepted
             /\ message'.text = "Cannot run from rooms consecutively!"
             /\ UNCHANGED engine )
      ]_vars

\* the second of two runs in a row has been refused
C4_Witness ==
    /\ cmds = 2
    /\ last.cmd = "run_from_room" /\ ~last.accepted
    /\ just_ran
    /\ message.text = "Cannot run from rooms consecutively!"

\* the step is a use_card on a monster that the weapon slot rejects
RejectedStep ==
    /\ last'.cmd = "use_card"
    /\ 0 <= last'.card_index /\ last'.card_index < Len(room_cards)
    /\ card_type(room_cards[last'.card_index + 1]) = "MONSTER"
    /\ ~can_add_monster(weapon, monsters, room_cards[last'.card_index + 1])

\* C5 - a monster-stacking violation is a pure no-op: after use_card on a
\* monster that the weapon slot rejects every engine field is unchanged,
\* just_ran included.
C5_RejectedNoOp ==
    [][ RejectedStep => UNCHANGED engine ]_vars

\* the damage of a fight against a monster of value v
Damage(v) == IF weapon # None THEN Max(0, v - weapon.value) ELSE v

\* the step is a use_card on a monster that the weapon slot accepts
FightStep ==
    /\ last'.cmd = "use_card"
    /\ 0 <= last'.card_index /\ last'.card_index < Len(room_cards)
    /\ card_type(room_cards[last'.card_index + 1]) = "MONSTER"
    /\ can_add_monster(weapon, monsters, room_cards[last'.card_index + 1])

\* what draw_room has to do with a room of n cards and a deck of d cards
Refilled(n, d, room_before, deck_before, room_after, deck_after) ==
    IF n >= 2
    THEN room_after = room_before /\ deck_after = deck_before
    ELSE LET m == Min(4 - n, d)
         IN  /\ Len(room_after) = Min(4, n + d)
             /\ Len(room_after) = n + m
             /\ SubSeq(room_after, 1, n) = room_before
             /\ UnplacedSeq(SubSeq(room_after, n + 1, n + m)) = SubSeq(deck_before, 1, m)
             /\ deck_after = SubSeq(deck_before, m + 1, d)

\* C6 - room refill threshold: draw_room with 2, 3 or 4 cards in the room
\* changes neither room nor deck; with n <= 1 cards and a deck of d cards it
\* moves exactly min(4 - n, d) cards from the deck to the room, which ends
\* with min(4, n + d) cards and never holds more than 4.  Stated of
\* draw_room on every reachable state, and of the refill made by every
\* use_card in which the player survives and by every accepted
\* run_from_room.
C6_RefillThreshold ==
    /\ [] ( /\ Len(room_cards) <= 4
            /\ LET r == draw_room(State)
               IN  /\ Refilled(Len(room_cards), Len(deck), room_cards, deck,
                               r.room_cards, r.deck)
                   /\ Len(r.room_cards) <= 4 )
    /\ [][ /\ ( last'.cmd = "use_card" /\ last'.card # None /\ last'.player_survived )
              => LET room == IF last'.action_successful
                             THEN Remove(room_cards, last'.card_index + 1)
                             ELSE room_cards
                 IN  Refilled(Len(room), Len(deck), room, deck, room_cards', deck')
           /\ ( last'.cmd = "run_from_room" /\ last'.accepted )
              => /\ Len(room_cards') = Min(4, Len(deck) + Len(room_cards))
                 /\ Len(deck') = Len(deck) + Len(room_cards) - Len(room_cards')
         ]_vars

\* a use_card has left one card in the room and the refill has taken the
\* only card of the deck
C6_Witness ==
    /\ cmds = 1
    /\ last.cmd = "use_card" /\ last.accepted
    /\ deck = <<>> /\ Len(room_cards) = 2
    /\ ~game_over

\* C7 - loss: a use_card that fights an accepted monster whose damage is
\* >= hp sets hp to 0 and game_over to true, leaves victory false, removes
\* the monster from the room and stops: the deck is unchanged (no refill)
\* and victory is not set, even with deck and room both empty.
C7_Loss ==
    [][ ( FightStep /\ Damage(room_cards[last'.card_index + 1].value) >= hp )
        => ( /\ hp' = 0
             /\ game_over' /\ ~victory'
             /\ ~last'.player_survived /\ ~last'.returned
             /\ room_cards' = Remove(room_cards, last'.card_index + 1)
             /\ deck' = deck )
      ]_vars

\* the player died on the last card: deck and room are empty, no victory
C7_Witness ==
    /\ last.cmd = "use_card" /\ card_type(last.card) = "MONSTER"
    /\ ~last.player_survived
    /\ hp = 0 /\ game_over /\ ~victory
    /\ deck = <<>> /\ room_cards = <<>>

\* C8 - victory: after a use_card in which the player does not die,
\* game_over and victory are both set exactly when deck and room are both
\* empty after the refill; run_from_room and discard_weapon never set
\* victory; victory never holds while a card is left in deck or room.
C8_Victory ==
    /\ [][ /\ ( last'.cmd = "use_card" /\ last'.player_survived )
              => /\ victory' <=> (deck' = <<>> /\ room_cards' = <<>>)
                 /\ game_over' <=> (deck' = <<>> /\ room_cards' = <<>>)
           /\ last'.cmd \in {"run_from_room", "discard_weapon"}
              => ~victory' /\ ~game_over'
         ]_vars
    /\ [] ( victory => deck = <<>> /\ room_cards = <<>> )

\* the last card has been used and the game is won
C8_Witness ==
    /\ last.cmd = "use_card" /\ last.accepted /\ last.player_survived
    /\ victory /\ game_over /\ hp > 0
    /\ deck = <<>> /\ room_cards = <<>>

\* C9 - game over is terminal: from a state with game_over true the only
\* step is a restart, so use_card, run_from_room and discard_weapon change
\* nothing and game_over goes back to false only through restart.
C9_GameOverTerminal ==
    [][ game_over => ( last'.cmd = "restart" /\ ~game_over' ) ]_vars

\* a finished game has been restarted
C9_Witness ==
    /\ last.cmd = "restart" /\ last.over_before
    /\ ~game_over /\ hp = max_hp

\* C10 - damage formula: an accepted fight costs min(hp, max(0, monster
\* value - weapon value)) hp with a weapon and min(hp, monster value) hp
\* without one.
C10_DamageFormula ==
    [][ FightStep
        => LET v == room_cards[last'.card_index + 1].value
           IN  /\ last'.action_successful
               /\ weapon # None => hp - hp' = Min(hp, Max(0, v - weapon.value))
               /\ weapon = None => hp - hp' = Min(hp, v)
               /\ (weapon # None /\ weapon.value >= v) => hp' = hp
      ]_vars

\* a monster stronger than the weapon has been fought and survived
C10_Witness ==
    /\ last.cmd = "use_card" /\ last.action_successful /\ last.player_survived
    /\ card_type(last.card) = "MONSTER"
    /\ weapon # None /\ monsters # <<>>
    /\ monsters[Len(monsters)] = last.card
    /\ last.card.value > weapon.value
    /\ hp < max_hp

\* the step is a use_card on a card of the room of the given type
UseStep(type) ==
    /\ last'.cmd = "use_card"
    /\ 0 <= last'.card_index /\ last'.card_index < Len(room_cards)
    /\ card_type(room_cards[last'.card_index + 1]) = type

\* the cards of a sequence, as a set
CardSet(s) == {s[k] : k \in 1..Len(s)}

\* C11 - healing cap: use_card on a HEARTS card of value v with hp = h
\* sets hp to min(20, h + v), reports new hp - h as the healing (less than
\* v when h + v > 20), and moves the card from the room to the discard pile.
C11_HealingCap ==
    [][ UseStep("HEALTH")
        => LET card == Unplaced(room_cards[last'.card_index + 1])
           IN  /\ hp' = Min(20, hp + card.value)
               /\ message' = Msg("Restored HP", <<hp' - hp>>)
               /\ hp + card.value > 20 => message'.args[1] < card.value
               /\ hp + card.value <= 20 => message'.args[1] = card.value
               /\ card \notin CardSet(UnplacedSeq(room_cards'))
               /\ discard_pile' = Append(discard_pile, card)
               /\ last'.returned
      ]_vars

\* a potion has been cut short by the cap: some healing, less than its value
C11_Witness ==
    /\ last.cmd = "use_card" /\ card_type(last.card) = "HEALTH"
    /\ last.card # None
    /\ hp = max_hp
    /\ message.text = "Restored HP"
    /\ 0 < message.args[1] /\ message.args[1] < last.card.value
    /\ discard_pile[Len(discard_pile)] = last.card

\* the sum of the values of the cards of a sequence
RECURSIVE SumValues(_)
SumValues(s) == IF s = <<>> THEN 0 ELSE s[1].value + SumValues(Tail(s))

\* C12 - hp range: in every reachable state 0 <= hp <= 20, also after a
\* fight that costs more than the hp left and after a health potion.
C12_HpRange ==
    0 <= hp /\ hp <= 20

\* the player died without ever having used a weapon or a potion, of
\* monsters worth more than max_hp together
C12_Witness ==
    /\ last.cmd = "use_card" /\ ~last.player_survived
    /\ weapon = None /\ discard_pile # <<>>
    /\ \A k \in 1..Len(discard_pile) : card_type(discard_pile[k]) = "MONSTER"
    /\ SumValues(discard_pile) > max_hp
    /\ hp = 0

\* the position indexes of the cards of a room
Positions(room) == {room[k].position_index : k \in 1..Len(room)}

\* a refill of the room: the cards that were there keep their place and
\* their position_index, the new ones take distinct free positions of 0..3
RefillKeepsSlots(room_before, room_after) ==
    /\ Len(room_after) >= Len(room_before)
    /\ SubSeq(room_after, 1, Len(room_before)) = room_before
    /\ \A k \in (Len(room_before) + 1)..Len(room_after) :
          /\ room_after[k].position_index \in 0..3
          /\ room_after[k].position_index \notin Positions(room_before)
          /\ \A j \in (Len(room_before) + 1)..Len(room_after) :
                room_after[j].position_index = room_after[k].position_index => j = k

\* C13 - slot positions: a refill never changes the position_index of a
\* card already in the room and places new cards only in positions of 0..3
\* that no room card occupies; in every reachable state the room cards have
\* pairwise distinct position indexes within 0..3.  Stated of draw_room on
\* every reachable state and of the refill made by use_card and by
\* run_from_room.
C13_SlotPositions ==
    /\ [] ( /\ Positions(room_cards) \subseteq 0..3
            /\ Cardinality(Positions(room_cards)) = Len(room_cards)
            /\ RefillKeepsSlots(room_cards, draw_room(State).room_cards) )
    /\ [][ /\ ( last'.cmd = "use_card" /\ last'.card # None /\ last'.player_survived )
              => LET room == IF last'.action_successful
                             THEN Remove(room_cards, last'.card_index + 1)
                             ELSE room_cards
                 IN  RefillKeepsSlots(room, room_cards')
           /\ ( last'.cmd = "run_from_room" /\ last'.accepted )
              => RefillKeepsSlots(<<>>, room_cards')
         ]_vars

\* three cards have been dealt around a card that stayed where it was
C13_Witness ==
    /\ last.cmd = "use_card" /\ last.accepted
    /\ Len(room_cards) = 4
    /\ room_cards[1].position_index = 3
    /\ Positions(SubSeq(room_cards, 2, 4)) = {0, 1, 2}
    /\ Len(deck) = DeckSize - 7

\* C14 - invalid index: use_card(i) with i < 0 or i >= the number of room
\* cards leaves deck, room, weapon slot, discard pile, hp, just_ran,
\* game_over and victory unchanged and reports that the game continues.
C14_InvalidIndex ==
    [][ ( /\ last'.cmd = "use_card"
          /\ (last'.card_index < 0 \/ last'.card_index >= Len(room_cards)) )
        => ( /\ UNCHANGED engine
             /\ last'.returned
             /\ ~last'.accepted
             /\ message'.text = "Invalid card selection!" )
      ]_vars

\* use_card(-1) has been refused right after a run, with cards in the room
C14_Witness ==
    /\ last.cmd = "use_card" /\ last.card_index = -1
    /\ last.returned
    /\ just_ran /\ room_cards # <<>>
    /\ message.text = "Invalid card selection!"

\* C15 - run effect: run_from_room with just_ran false and a non-empty room
\* puts every room card at the end of the deck, after the cards already in
\* it, empties the room, refills it from the front of the deck and sets
\* just_ran; with at least 4 cards in the deck the new room is the 4 cards
\* that were at the front of the deck and none of the cards run from.
C15_RunEffect ==
    [][ ( last'.cmd = "run_from_room" /\ ~just_ran /\ room_cards # <<>> )
        => LET d == Len(deck)
               n == Len(room_cards)
               m == Min(4, d + n)
           IN  /\ last'.accepted
               /\ just_ran'
               /\ Len(room_cards') = m
               /\ Len(deck') = d + n - m
               \* room and deck afterwards, read in order, start with the old deck
               /\ SubSeq(UnplacedSeq(room_cards') \o deck', 1, d) = deck
               \* and end with the cards of the old room, in some order
               /\ CardSet(SubSeq(UnplacedSeq(room_cards') \o deck', d + 1, d + n))
                     = CardSet(UnplacedSeq(room_cards))
               /\ [k \in 1..m |-> room_cards'[k].position_index] = [k \in 1..m |-> k - 1]
               /\ d >= 4 => /\ UnplacedSeq(room_cards') = SubSeq(deck, 1, 4)
                             /\ CardSet(UnplacedSeq(room_cards'))
                                   \cap CardSet(UnplacedSeq(room_cards)) = {}
                             /\ SubSeq(deck', 1, d - 4) = SubSeq(deck, 5, d)
               /\ UNCHANGED <<weapon, monsters, discard_pile, hp, game_over, victory>>
      ]_vars

\* a room of 4 cards has been run from and is at the bottom of the deck
C15_Witness ==
    /\ last.cmd = "run_from_room" /\ last.accepted
    /\ just_ran
    /\ Len(room_cards) = 4 /\ Len(deck) = DeckSize - 4
    /\ weapon = None /\ discard_pile = <<>>
    /\ CardSet(SubSeq(deck, Len(deck) - 3, Len(deck)))
          \cap CardSet(UnplacedSeq(room_cards)) = {}

\* C16 - discard_weapon: without a weapon it changes nothing, just_ran
\* included; with a weapon it appends the weapon and then the monster
\* stack, in stack order, to the discard pile, leaves the slot with no
\* weapon and an empty stack, clears just_ran and leaves deck, room and hp
\* unchanged.
C16_DiscardWeapon ==
    [][ last'.cmd = "discard_weapon"
        => IF weapon = None
           THEN /\ UNCHANGED engine
                /\ ~last'.accepted
                /\ message'.text = "No weapon to discard!"
           ELSE /\ discard_pile' = discard_pile \o <<weapon>> \o monsters
                /\ weapon' = None /\ monsters' = <<>>
                /\ ~just_ran'
                /\ UNCHANGED <<deck, room_cards, hp, game_over, victory>>
      ]_vars

\* a weapon and its stack have been discarded: the pile ends with the
\* weapon followed by a monster
C16_Witness ==
    /\ last.cmd = "discard_weapon" /\ last.accepted
    /\ weapon = None /\ monsters = <<>> /\ ~just_ran
    /\ Len(discard_pile) >= 2
    /\ card_type(discard_pile[Len(discard_pile) - 1]) = "WEAPON"
    /\ card_type(discard_pile[Len(discard_pile)]) = "MONSTER"

\* C17 - equipping a weapon: use_card on a DIAMONDS card removes it from
\* the room and makes it the weapon with an empty stack; the old weapon, if
\* any, and every monster of its stack are appended to the discard pile; hp
\* is unchanged.
C17_EquipWeapon ==
    [][ UseStep("WEAPON")
        => LET card == Unplaced(room_cards[last'.card_index + 1])
           IN  /\ card.suit = "DIAMONDS"
               /\ weapon' = card /\ monsters' = <<>>
               /\ card \notin CardSet(UnplacedSeq(room_cards'))
               /\ discard_pile' = discard_pile
                     \o (IF weapon # None THEN <<weapon>> \o monsters ELSE <<>>)
               /\ hp' = hp
               /\ last'.returned
      ]_vars

\* a weapon has replaced a weapon that had a monster on it
C17_Witness ==
    /\ last.cmd = "use_card" /\ card_type(last.card) = "WEAPON"
    /\ weapon = last.card /\ monsters = <<>>
    /\ Len(discard_pile) >= 2
    /\ card_type(discard_pile[Len(discard_pile) - 1]) = "WEAPON"
    /\ card_type(discard_pile[Len(discard_pile)]) = "MONSTER"

\* C18 - restart: from any state, playing, lost or won, restart yields a
\* fresh game: 40 cards in the deck, 4 cards in the room at positions 0, 1,
\* 2, 3, no weapon, empty stack, empty discard pile, hp = 20, and just_ran,
\* game_over and victory all false.
C18_Restart ==
    [][ last'.cmd = "restart"
        => ( /\ Len(deck') = 40
             /\ Len(room_cards') = 4
             /\ [k \in 1..4 |-> room_cards'[k].position_index] = <<0, 1, 2, 3>>
             /\ weapon' = None /\ monsters' = <<>> /\ discard_pile' = <<>>
             /\ hp' = 20
             /\ ~just_ran' /\ ~game_over' /\ ~victory' )
      ]_vars

\* a game that was being played has been restarted
C18_Witness ==
    /\ last.cmd = "restart" /\ ~last.over_before
    /\ Len(deck) = 40 /\ Len(room_cards) = 4
    /\ hp = max_hp /\ discard_pile = <<>>

\* the values of the cards of a suit in a sequence of cards
ValuesOf(s, suit) == {s[k].value : k \in {j \in 1..Len(s) : s[j].suit = suit}}

\* C19 - deck composition: initialize_deck builds 44 pairwise distinct
\* cards, HEARTS 2..10, DIAMONDS 2..10, CLUBS 2..14 and SPADES 2..14, and
\* shuffling changes only the order: every explored shuffle holds the same
\* cards, and so do deck and room together after a restart.
C19_DeckComposition ==
    /\ Len(initialize_deck) = 44
    /\ Cardinality(CardSet(initialize_deck)) = 44
    /\ \A k \in 1..Len(initialize_deck) :
          initialize_deck[k].suit \in {"HEARTS", "DIAMONDS", "CLUBS", "SPADES"}
    /\ ValuesOf(initialize_deck, "HEARTS") = 2..10
    /\ ValuesOf(initialize_deck, "DIAMONDS") = 2..10
    /\ ValuesOf(initialize_deck, "CLUBS") = 2..14
    /\ ValuesOf(initialize_deck, "SPADES") = 2..14
    /\ \A s \in 1..NumShuffles :
          LET d == shuffled(initialize_deck, ShuffleOutcome(s))
          IN  Len(d) = 44 /\ CardSet(d) = CardSet(initialize_deck)
    /\ last.cmd = "restart"
          => LET d == UnplacedSeq(room_cards) \o deck
             IN  Len(d) = 44 /\ CardSet(d) = CardSet(initialize_deck)

\* a deck has been built and shuffled: the same cards in another order
C19_Witness ==
    /\ last.cmd = "restart"
    /\ UnplacedSeq(room_cards) \o deck # initialize_deck
    /\ CardSet(UnplacedSeq(room_cards) \o deck) = CardSet(initialize_deck)

\* C20 - weapon slot shape: in every reachable state the monster stack is
\* non-empty only if a weapon is equipped, the weapon is a DIAMONDS card
\* and every card of the stack is a CLUBS or SPADES card.
C20_WeaponSlotShape ==
    /\ monsters # <<>> => weapon # None
    /\ weapon # None => weapon.suit = "DIAMONDS"
    /\ \A k \in 1..Len(monsters) : monsters[k].suit \in {"CLUBS", "SPADES"}

\* a weapon carries a monster of each black suit
C20_Witness ==
    /\ weapon # None /\ weapon.suit = "DIAMONDS"
    /\ Len(monsters) >= 2
    /\ \E j, k \in 1..Len(monsters) :
          monsters[j].suit = "CLUBS" /\ monsters[k].suit = "SPADES"

\* the number of places, of deck, room, weapon slot, stack and discard
\* pile, in which a card lies after the step
PlacesAfter(card) ==
      (IF card \in CardSet(UnplacedSeq(room_cards')) THEN 1 ELSE 0)
    + (IF card \in CardSet(deck') THEN 1 ELSE 0)
    + (IF card = weapon' THEN 1 ELSE 0)
    + Cardinality({k \in 1..Len(monsters') : monsters'[k] = card})
    + Cardinality({k \in 1..Len(discard_pile') : discard_pile'[k] = card})

\* C21 - where a defeated monster goes: after an accepted fight the monster
\* has left the room and is in exactly one place: at the end of the monster
\* stack when a weapon is equipped, also when the fight kills the player,
\* or at the end of the discard pile when no weapon is equipped, the stack
\* staying empty.
C21_DefeatedMonster ==
    [][ FightStep
        => LET card == Unplaced(room_cards[last'.card_index + 1])
           IN  /\ card \notin CardSet(UnplacedSeq(room_cards'))
               /\ PlacesAfter(card) = 1
               /\ weapon # None => /\ monsters' = Append(monsters, card)
                                    /\ discard_pile' = discard_pile
               /\ weapon = None => /\ discard_pile' = Append(discard_pile, card)
                                    /\ monsters' = <<>>
               /\ weapon' = weapon
      ]_vars

\* the monster that killed the player lies on top of the stack
C21_Witness ==
    /\ last.cmd = "use_card" /\ card_type(last.card) = "MONSTER"
    /\ ~last.player_survived /\ hp = 0
    /\ weapon # None /\ monsters # <<>>
    /\ monsters[Len(monsters)] = last.card
    /\ last.card \notin CardSet(discard_pile)

\* the monsters of the deck
MonsterCards == {c \in CardSet(initialize_deck) : card_type(c) = "MONSTER"}

\* C22 - acceptance rule: can_add_monster accepts every monster when no
\* weapon is equipped, every monster when the stack is empty, whatever its
\* value and the weapon's, and with a non-empty stack exactly the monsters
\* of a value <= the last stacked one's; use_card fights exactly the
\* monsters so accepted.  Stated of can_add_monster on every reachable
\* weapon slot and every monster of the deck.
C22_AcceptanceRule ==
    /\ [] ( \A m \in MonsterCards :
               can_add_monster(weapon, monsters, m)
                 <=> ( \/ weapon = None
                       \/ monsters = <<>>
                       \/ m.value <= monsters[Len(monsters)].value ) )
    /\ [][ UseStep("MONSTER")
           => ( last'.action_successful
                  <=> ( \/ weapon = None
                        \/ monsters = <<>>
                        \/ room_cards[last'.card_index + 1].value
                              <= monsters[Len(monsters)].value ) )
         ]_vars

\* a monster of the value of the last stacked one, both stronger than the
\* weapon, has been accepted
C22_Witness ==
    /\ last.cmd = "use_card" /\ last.action_successful
    /\ weapon # None /\ Len(monsters) >= 2
    /\ monsters[Len(monsters)] = last.card
    /\ monsters[Len(monsters)].value = monsters[Len(monsters) - 1].value
    /\ monsters[1].value > weapon.value

\* C23 - clearing of just_ran: just_ran becomes true by an accepted
\* run_from_room and by no other command, and stays true until the next
\* use_card that uses a card (health, weapon or accepted monster, the
\* player surviving) or the next discard_weapon that discards a weapon;
\* every other command leaves it as it is.
C23_JustRanClearing ==
    [][ just_ran' =
          ( IF last'.cmd = "run_from_room" /\ last'.accepted THEN TRUE
            ELSE IF \/ last'.cmd = "use_card" /\ last'.accepted /\ last'.player_survived
                    \/ last'.cmd = "discard_weapon" /\ last'.accepted
                    \/ last'.cmd = "restart"
                 THEN FALSE
                 ELSE just_ran )
      ]_vars

\* C24 - the discard pile is append-only: over every use_card,
\* run_from_room and discard_weapon step the pile before the step is a
\* prefix of the pile after it; only restart empties it.  No card comes
\* back from the discard pile or the weapon slot to the deck or the room.
C24_DiscardAppendOnly ==
    [][ /\ last'.cmd \in {"use_card", "run_from_room", "discard_weapon"}
           => /\ Len(discard_pile') >= Len(discard_pile)
              /\ SubSeq(discard_pile', 1, Len(discard_pile)) = discard_pile
              /\ CardSet(deck') \cup CardSet(UnplacedSeq(room_cards'))
                    \subseteq CardSet(deck) \cup CardSet(UnplacedSeq(room_cards))
        /\ last'.cmd = "restart" => discard_pile' = <<>>
      ]_vars

\* a weapon and its monster have been put on a pile that held cards
C24_Witness ==
    /\ last.cmd = "discard_weapon" /\ last.accepted
    /\ Len(discard_pile) >= 3
    /\ card_type(discard_pile[Len(discard_pile) - 1]) = "WEAPON"
    /\ card_type(discard_pile[Len(discard_pile)]) = "MONSTER"
    /\ deck # <<>> /\ room_cards # <<>>

\* C25 - flag consistency: in every reachable state victory implies
\* game_over; game_over with victory false holds exactly when hp = 0; and
\* victory implies hp >= 1 with deck and room both empty.
C25_FlagConsistency ==
    /\ victory => game_over
    /\ (game_over /\ ~victory) <=> hp = 0
    /\ victory => hp >= 1 /\ deck = <<>> /\ room_cards = <<>>

\* the game has been won with little hp left, all other cards spent
C25_Witness ==
    /\ victory /\ game_over
    /\ 1 <= hp /\ hp < max_hp
    /\ deck = <<>> /\ room_cards = <<>>
    /\ last.cmd = "use_card" /\ last.returned

\* C26 - room occupancy between commands: in every reachable state with
\* game_over false the room holds at least one card, and at most one card
\* only if the deck is empty.
C26_RoomOccupancy ==
    ~game_over => /\ Len(room_cards) >= 1
                  /\ Len(room_cards) <= 1 => deck = <<>>

\* the game goes on with a single card in the room and none in the deck
C26_Witness ==
    /\ ~game_over
    /\ Len(room_cards) = 1 /\ deck = <<>>
    /\ last.cmd = "use_card" /\ last.accepted

\* the cards still to be played: those of the deck and of the room
CardsLeft == Len(deck) + Len(room_cards)

\* C27 - progress measure: the number of cards in deck plus room is left
\* unchanged by run_from_room, by discard_weapon and by every rejected or
\* invalid use_card, and decreases by exactly 1 on every use_card that uses
\* a card; it starts at 44 and the game is over when it is 0, so a game
\* takes at most 44 use_card calls that use a card.
C27_ProgressMeasure ==
    /\ [][ /\ last'.cmd \in {"run_from_room", "discard_weapon"}
              => CardsLeft' = CardsLeft
           /\ ( last'.cmd = "use_card" /\ ~last'.accepted )
              => CardsLeft' = CardsLeft
           /\ ( last'.cmd = "use_card" /\ last'.accepted )
              => CardsLeft' = CardsLeft - 1
           /\ last'.cmd = "restart" => CardsLeft' = 44
         ]_vars
    /\ [] ( /\ 0 <= CardsLeft /\ CardsLeft <= 44
            /\ CardsLeft = 0 => game_over )

\* the 44th card has been used and the game is over
C27_Witness ==
    /\ last.cmd = "use_card" /\ last.accepted
    /\ CardsLeft = 0 /\ game_over
    /\ (IF weapon = None THEN 0 ELSE 1) + Len(monsters) + Len(discard_pile) = 44

\* every card of the room is a monster that the weapon slot rejects
AllRejected(st) ==
    /\ st.room_cards # <<>>
    /\ \A k \in 1..Len(st.room_cards) :
          /\ card_type(st.room_cards[k]) = "MONSTER"
          /\ ~can_add_monster(st.weapon, st.monsters, st.room_cards[k])

\* the engine fields of a state record, the message left out
EngineOf(st) ==
    <<st.deck, st.room_cards, st.weapon, st.monsters, st.discard_pile, st.hp,
      st.just_ran, st.game_over, st.victory>>

\* C28 - no stuck state: in every reachable state with game_over false
\* some use_card index is accepted, or every room card is a monster
\* rejected by the stacking rule; then a weapon is equipped, discard_weapon
\* is accepted and changes the state, and after it every monster of the
\* room is accepted.
C28_NoStuckState ==
    /\ [] ( ~game_over
            => \/ \E i \in 0..(Len(room_cards) - 1) :
                     LET r == use_card(State, i)
                     IN  r.valid /\ r.action_successful
                         /\ EngineOf(r.st) # EngineOf(State)
               \/ /\ AllRejected(State)
                  /\ weapon # None
                  /\ LET d == discard_weapon(State)
                     IN  /\ EngineOf(d) # EngineOf(State)
                         /\ d.weapon = None
                         /\ \A k \in 1..Len(d.room_cards) :
                               can_add_monster(d.weapon, d.monsters, d.room_cards[k]) )
    /\ [][ ( AllRejected(State) /\ last'.cmd = "discard_weapon" )
           => /\ last'.accepted
              /\ \E i \in 0..(Len(room_cards') - 1) :
                    LET r == use_card(State', i)
                    IN  r.valid /\ r.action_successful
         ]_vars

\* the weapon has been discarded with a monster on it that was weaker
\* than every card of the room, all of them monsters
C28_Witness ==
    /\ last.cmd = "discard_weapon" /\ last.accepted
    /\ ~game_over /\ weapon = None
    /\ room_cards # <<>> /\ discard_pile # <<>>
    /\ card_type(discard_pile[Len(discard_pile)]) = "MONSTER"
    /\ \A k \in 1..Len(room_cards) :
          /\ card_type(room_cards[k]) = "MONSTER"
          /\ room_cards[k].value > discard_pile[Len(discard_pile)].value

\* the place of a card after it has been used
Spent(card) ==
    \/ weapon' = card
    \/ monsters' # <<>> /\ monsters'[Len(monsters')] = card
    \/ discard_pile' # <<>> /\ discard_pile'[Len(discard_pile')] = card

\* C29 - index meaning: use_card(i) acts on the i-th card of the room in
\* list order, the order of arrival, not on the card in slot i; the valid
\* range is 0 <= i < number of room cards; after a refill that kept one
\* card, that card is at index 0 whatever its position_index and the new
\* cards follow in ascending order of position.
C29_IndexMeaning ==
    [][ last'.cmd = "use_card"
        => LET i == last'.card_index
           IN  /\ ~(0 <= i /\ i < Len(room_cards))
                  => room_cards' = room_cards /\ ~last'.accepted
               /\ ( 0 <= i /\ i < Len(room_cards) /\ last'.action_successful )
                  => LET rest == Remove(room_cards, i + 1)
                     IN  /\ Spent(Unplaced(room_cards[i + 1]))
                         /\ SubSeq(room_cards', 1, Len(rest)) = rest
                         /\ ( Len(rest) = 1 /\ Len(room_cards') > 1 )
                            => /\ room_cards'[1] = rest[1]
                               /\ \A k \in 2..(Len(room_cards') - 1) :
                                     room_cards'[k].position_index
                                       < room_cards'[k + 1].position_index
               /\ ( 0 <= i /\ i < Len(room_cards) /\ ~last'.action_successful )
                  => UnplacedSeq(room_cards') = UnplacedSeq(room_cards)
      ]_vars

\* use_card(1) has used a card of the room dealt at the start while the
\* card of slot 1 is still in the room
C29_Witness ==
    /\ last.cmd = "use_card" /\ last.accepted /\ last.card_index = 1
    /\ Len(deck) = DeckSize - 4 /\ Len(room_cards) = 2
    /\ 1 \in Positions(room_cards)
    /\ last.card \notin CardSet(UnplacedSeq(room_cards))

\* C30 - the two rule engines are equivalent: from the same deck order,
\* with the same outcomes of the room shuffles and the same sequence of
\* use_card, run_from_room and discard_weapon commands, the monolithic Game
\* and the modular GameplayScreen have the same deck, room (cards and
\* positions), weapon, monster stack, discard pile, hp, just_ran, game_over
\* and victory after every command; the values returned by use_card agree
\* as well.
C30_EnginesEquivalent ==
    /\ [] ( EngineOf(game) = EngineOf(State) )
    /\ [][ last'.cmd = "use_card"
           => Game_use_card(game, last'.card_index).continue = last'.returned ]_vars

\* both engines after a weapon, a fight and a run
C30_Witness ==
    /\ cmds = MaxCmds
    /\ last.cmd = "run_from_room" /\ last.accepted
    /\ game.just_ran /\ game.weapon # None /\ game.monsters # <<>>
    /\ game.hp < Game_max_hp
    /\ Len(game.room_cards) = 4
    /\ game.room_cards = room_cards /\ game.deck = deck

====
